---- MODULE Spec2Model ----
(***************************************************************************)
(* Ledger core of the banking service: TransactionService (deposit,        *)
(* withdrawal, transfer, fee, reversal, pending sweep) over the Account,   *)
(* AccountBalance and Transaction collections.                             *)
(*                                                                         *)
(* Every service method opens one MongoDB session transaction.  The store  *)
(* is modelled as the driver behaves: the first read of a session fixes    *)
(* its snapshot, reads with .session(session) see the snapshot plus the    *)
(* session's own writes, a write to a document that another session has    *)
(* written (uncommitted, or committed after the snapshot) raises a write   *)
(* conflict, and commitTransaction publishes the write set atomically.     *)
(* Calls without a session (getSystemAccount) read and write the committed *)
(* state directly.  Each await of the source is one step of a task.        *)
(* Amounts are integers (minor units); Decimal arithmetic is exact.        *)
(***************************************************************************)
EXTENDS Integers, Sequences, FiniteSets, TLC

\* ------------------------------------------------------------------ bounds
MaxOps == 3          \* calls made in one behaviour
MaxAmount == 2       \* amounts are drawn from 1..MaxAmount

Procs == {"p1", "p2"}
Users == {"u1", "u2"}
Currencies == {"USD", "EUR"}
Amounts == 1..MaxAmount
AccountNumbers == {"A", "B", "Z"}     \* "Z" names no account

VARIABLES
  accounts,   \* Account collection, in insertion order; _id = index
  balances,   \* AccountBalance collection: accountId -> balance
  balanceCurrency,  \* AccountBalance.currency, by account id
  users,      \* User collection: security.failedLoginAttempts and security.lockedUntil
  clock,      \* Date.now(), in minutes since the service started
  failures,   \* wrong passwords answered since the last successful login
  cache,      \* the response cache of the controllers: key -> <<data>>, or <<>>
  journal,    \* Transaction collection, in insertion order
  aged,       \* transactionIds created more than 60 s ago
  sysCache,   \* TransactionService.systemAccounts
  nextTx,     \* the transaction id generateTransactionId returns next
  ops,        \* calls made so far
  pc,         \* per task: the await it is suspended at
  op,         \* per task: the service method it runs
  args,       \* per task: the DTO it was called with
  ret,        \* what the step just taken returned to a caller, if it ended a call
  loc,        \* per task: local variables of the method
  snapBal,    \* per task: AccountBalance as of the session's snapshot
  snapJnl,    \* per task: Transaction as of the session's snapshot
  wbal,       \* per task: uncommitted balance writes of its session
  wtx,        \* per task: uncommitted transaction writes of its session
  stale,      \* per task: documents committed by others since its snapshot
  made        \* per task: its current call has written committed state

vars == <<accounts, balances, balanceCurrency, users, clock, failures, cache, journal, aged, sysCache, nextTx, ops,
          pc, op, args, ret, loc, snapBal, snapJnl, wbal, wtx, stale, made>>

authVars == <<users, clock, failures>>

storeVars == <<accounts, balances, balanceCurrency, journal, aged, sysCache, authVars, cache>>

taskVars == <<pc, op, args, loc, snapBal, snapJnl, wbal, wtx, stale, made>>

\* ------------------------------------------------------------ data model
Customer(num, owner, cur) ==
  [num |-> num, owner |-> owner, type |-> "SAVINGS", cur |-> cur,
   active |-> TRUE, purpose |-> ""]

SystemAccountDoc(purpose, cur) ==
  [num |-> "SYS", owner |-> "system", type |-> "SYSTEM", cur |-> cur,
   active |-> TRUE, purpose |-> purpose]

Entry(acct, side, amt) == [acct |-> acct, side |-> side, amt |-> amt]

NoArgs == [user |-> "", role |-> "", acct |-> "", to |-> "", amt |-> 0, cur |-> "", orig |-> 0,
           why |-> ""]

NoLoc == [txid |-> 0, acct |-> 0, dest |-> 0, sysId |-> 0, i |-> 0, j |-> 0,
          list |-> <<>>, processed |-> <<>>, failed |-> <<>>, runs |-> 0,
          available |-> 0, requested |-> 0]

\* the outcome a call hands back: its result or error, the error's details,
\* and what the call did on the way
NoRet == [task |-> "", op |-> "none", res |-> "none", args |-> NoArgs, txid |-> 0,
          acct |-> 0, available |-> 0, requested |-> 0, runs |-> 0, made |-> FALSE,
          processed |-> <<>>, failed |-> <<>>]

Return(p, kind, result, a, l, wrote) ==
  [task |-> p, op |-> kind, res |-> result, args |-> a, txid |-> l.txid,
   acct |-> l.acct, available |-> l.available, requested |-> l.requested,
   runs |-> l.runs, made |-> wrote, processed |-> l.processed, failed |-> l.failed]

EmptyFn == [x \in {} |-> 0]

InitBalance == <<1, 0>>

\* Account.findOne({accountNumber, isActive: true}): the first match, or 0
FindAccount(num) ==
  LET hits == {i \in 1..Len(accounts) : accounts[i].num = num /\ accounts[i].active}
  IN  IF hits = {} THEN 0 ELSE CHOOSE i \in hits : \A k \in hits : i <= k

\* Account.findOne({accountType: 'SYSTEM', currency, 'metadata.purpose'})
FindSystemAccount(purpose, cur) ==
  LET hits == {i \in 1..Len(accounts) : /\ accounts[i].type = "SYSTEM"
                                        /\ accounts[i].cur = cur
                                        /\ accounts[i].purpose = purpose}
  IN  IF hits = {} THEN 0 ELSE CHOOSE i \in hits : \A k \in hits : i <= k

CacheKey(purpose, cur) == <<purpose, cur>>

CacheKeys == {"DEPOSITS", "WITHDRAWALS", "FEES"} \X Currencies

Purpose(kind) ==
  CASE kind = "deposit"    -> "DEPOSITS"
    [] kind = "withdrawal" -> "WITHDRAWALS"
    [] OTHER               -> "FEES"

\* ------------------------------------------------------ session semantics
BalDoc(a) == <<"bal", a>>
TxDoc(id) == <<"tx", id>>

InTxn(p) == pc[p] # "idle"

Written(q) == {BalDoc(a) : a \in DOMAIN wbal[q]} \cup {TxDoc(wtx[q][k].id) : k \in 1..Len(wtx[q])}

\* a write inside p's session hits a document that another session wrote
NoConflictCheck(p, doc) == FALSE
AnyOpenSession(p, doc) == \E q \in Procs \ {p} : InTxn(q)
WriteConflict(p, doc) ==
  \/ doc \in stale[p]
  \/ \E q \in Procs \ {p} : InTxn(q) /\ doc \in Written(q)

\* AccountBalance.findOne({accountId}).session(session)
HasBalance(p, a) == a \in DOMAIN wbal[p] \/ a \in DOMAIN snapBal[p]
ReadBalance(p, a) == IF a \in DOMAIN wbal[p] THEN wbal[p][a] ELSE snapBal[p][a]

JournalIds(j) == {j[k].id : k \in 1..Len(j)}

\* findOne: the first of the matching documents, or 0
First(hits) == IF hits = {} THEN 0 ELSE CHOOSE k \in hits : \A m \in hits : k <= m

\* Transaction.findOne({transactionId: id})
FindTx(j, id) == First({k \in 1..Len(j) : j[k].id = id})

\* commitTransaction of the sweep: the documents it saved replace the ones
\* it read
RECURSIVE Publish(_, _)
Publish(j, w) ==
  IF w = <<>> THEN j
  ELSE LET t == Head(w)
           k == FindTx(j, t.id)
       IN  Publish(IF k = 0 THEN Append(j, t) ELSE [j EXCEPT ![k] = t], Tail(w))

NoBalances(p) == balances
CommittedBalances(p) ==
  [a \in DOMAIN balances |-> IF a \in DOMAIN wbal[p] THEN wbal[p][a] ELSE balances[a]]

\* -------------------------------------------------------- entry building
DepositEntries(acct, sys, amt) ==
  <<Entry(acct, "CREDIT", amt), Entry(sys, "DEBIT", amt)>>

DebitEntries(acct, sys, amt) ==
  <<Entry(acct, "DEBIT", amt), Entry(sys, "CREDIT", amt)>>

TransferEntries(src, dst, amt) ==
  <<Entry(src, "DEBIT", amt), Entry(dst, "CREDIT", amt)>>

\* reversedEntries: the original's entries with the sides swapped
SameEntries(entries) == entries
ReversedEntries(entries) ==
  [k \in 1..Len(entries) |->
     [entries[k] EXCEPT !.side = IF @ = "DEBIT" THEN "CREDIT" ELSE "DEBIT"]]

RECURSIVE SideSum(_, _)
SideSum(entries, side) ==
  IF entries = <<>> THEN 0
  ELSE (IF Head(entries).side = side THEN Head(entries).amt ELSE 0)
       + SideSum(Tail(entries), side)

\* TransactionSchema.entries validators
EntriesValid(entries) ==
  /\ Len(entries) >= 2
  /\ SideSum(entries, "DEBIT") - SideSum(entries, "CREDIT") = 0

\* currentBalance.lessThan(amount)
NeverInsufficient(current, amount) == FALSE
OffByOne(current, amount) == current + 1 < amount
Insufficient(current, amount) == current < amount

Tx(id, type, user, entries, amount, cur, from, to, status, ref, orig) ==
  [id |-> id, type |-> type, user |-> user, entries |-> entries,
   amount |-> amount, cur |-> cur, from |-> from, to |-> to,
   status |-> status, ref |-> ref, orig |-> orig, reason |-> "", reversalReason |-> ""]

\* ------------------------------------------------------------ task frame
\* a service method is entered: startSession, startTransaction.  A call is
\* served by the first free task, so that the tasks' names carry no meaning.
Enter(p) ==
  /\ pc[p] = "idle"
  /\ p = "p1" \/ pc["p1"] # "idle"
  /\ ops < MaxOps
  /\ ops' = ops + 1

\* the method throws before its session has read or written anything it keeps
Reject(p, kind, a, err, l) ==
  /\ ret' = Return(p, kind, err, a, l, FALSE)
  /\ UNCHANGED <<taskVars, nextTx>>

\* generateTransactionId, and the session's first read fixes its snapshot
Begin(p, kind, a, l, next) ==
  /\ nextTx' = nextTx + 1
  /\ pc' = [pc EXCEPT ![p] = next]
  /\ op' = [op EXCEPT ![p] = kind]
  /\ args' = [args EXCEPT ![p] = a]
  /\ loc' = [loc EXCEPT ![p] = [l EXCEPT !.txid = nextTx]]
  /\ snapBal' = [snapBal EXCEPT ![p] = balances]
  /\ snapJnl' = [snapJnl EXCEPT ![p] = journal]
  /\ stale' = [stale EXCEPT ![p] = {}]
  /\ made' = [made EXCEPT ![p] = FALSE]
  /\ ret' = NoRet
  /\ UNCHANGED <<wbal, wtx>>

\* the task is back at the caller: nothing of the call is left in it
Leave(p) ==
  /\ pc' = [pc EXCEPT ![p] = "idle"]
  /\ op' = [op EXCEPT ![p] = "none"]
  /\ args' = [args EXCEPT ![p] = NoArgs]
  /\ loc' = [loc EXCEPT ![p] = NoLoc]
  /\ snapBal' = [snapBal EXCEPT ![p] = EmptyFn]
  /\ snapJnl' = [snapJnl EXCEPT ![p] = <<>>]
  /\ wbal' = [wbal EXCEPT ![p] = EmptyFn]
  /\ wtx' = [wtx EXCEPT ![p] = <<>>]
  /\ made' = [made EXCEPT ![p] = FALSE]

\* catch: abortTransaction, endSession, rethrow
Abort(p, err, l) ==
  /\ Leave(p)
  /\ stale' = [stale EXCEPT ![p] = {}]
  /\ ret' = Return(p, op[p], err, args[p], l, made[p])

\* the task moves on to its next await
Step(p, next, l) ==
  /\ pc' = [pc EXCEPT ![p] = next]
  /\ loc' = [loc EXCEPT ![p] = l]
  /\ ret' = NoRet
  /\ UNCHANGED <<op, args, snapBal, snapJnl, stale>>

Started(amt) == [NoLoc EXCEPT !.runs = 1, !.requested = amt]

\* the user every call but a transfer is made for
Caller == "u1"

\* ---------------------------------------------------------- createDeposit
DepositCheck(a, cur) ==
  IF a = 0 THEN "NotFound"
  ELSE IF accounts[a].cur # cur THEN "BadRequest:currency"
  ELSE IF a \notin DOMAIN balances THEN "NotFound"
  ELSE "ok"

DepositBegin(p, num, amt, cur) ==
  LET a == FindAccount(num)
      err == DepositCheck(a, cur)
      dto == [NoArgs EXCEPT !.user = Caller, !.acct = num, !.amt = amt, !.cur = cur]
  IN  /\ Enter(p)
      /\ IF err # "ok"
         THEN Reject(p, "deposit", dto, err, Started(amt))
         ELSE Begin(p, "deposit", dto,
                    [Started(amt) EXCEPT !.acct = a, !.available = balances[a]], "sys")
      /\ UNCHANGED storeVars

\* ------------------------------------------- createWithdrawal / createFee
DebitCheck(a, amt, cur) ==
  IF a = 0 THEN "NotFound"
  ELSE IF accounts[a].cur # cur THEN "BadRequest:currency"
  ELSE IF a \notin DOMAIN balances THEN "NotFound"
  ELSE IF Insufficient(balances[a], amt) THEN "InsufficientFunds"
  ELSE "ok"

DebitAs(p, kind, user, num, amt, cur) ==
  LET a == FindAccount(num)
      err == DebitCheck(a, amt, cur)
      dto == [NoArgs EXCEPT !.user = user, !.acct = num, !.amt = amt, !.cur = cur]
      l == IF err \in {"ok", "InsufficientFunds"}
           THEN [Started(amt) EXCEPT !.acct = a, !.available = balances[a]]
           ELSE Started(amt)
  IN  /\ Enter(p)
      /\ IF err # "ok"
         THEN Reject(p, kind, dto, err, l)
         ELSE Begin(p, kind, dto, l, "sys")
      /\ UNCHANGED storeVars

DebitBegin(p, kind, num, amt, cur) == DebitAs(p, kind, Caller, num, amt, cur)

WithdrawalBegin(p, num, amt, cur) == DebitBegin(p, "withdrawal", num, amt, cur)

FeeBegin(p, num, amt, cur) == DebitBegin(p, "fee", num, amt, cur)

\* --------------------------------------------------------- createTransfer
AnyOwner(user, from, to, src, dst, amt, cur) ==
  IF from = to THEN "BadRequest:same"
  ELSE IF src = 0 \/ dst = 0 THEN "NotFound"
  ELSE IF accounts[src].cur # cur \/ accounts[dst].cur # cur THEN "BadRequest:currency"
  ELSE IF Insufficient(balances[src], amt) THEN "InsufficientFunds"
  ELSE "ok"

SourceCurrencyOnly(user, from, to, src, dst, amt, cur) ==
  IF from = to THEN "BadRequest:same"
  ELSE IF src = 0 \/ dst = 0 THEN "NotFound"
  ELSE IF accounts[src].cur # cur THEN "BadRequest:currency"
  ELSE IF accounts[src].owner # user THEN "BadRequest:owner"
  ELSE IF Insufficient(balances[src], amt) THEN "InsufficientFunds"
  ELSE "ok"

TransferCheck(user, from, to, src, dst, amt, cur) ==
  IF from = to THEN "BadRequest:same"
  ELSE IF src = 0 THEN "NotFound"
  ELSE IF dst = 0 THEN "NotFound"
  ELSE IF accounts[src].cur # cur THEN "BadRequest:currency"
  ELSE IF accounts[dst].cur # cur THEN "BadRequest:currency"
  ELSE IF accounts[src].owner # user THEN "BadRequest:owner"
  ELSE IF src \notin DOMAIN balances THEN "NotFound"
  ELSE IF dst \notin DOMAIN balances THEN "NotFound"
  ELSE IF Insufficient(balances[src], amt) THEN "InsufficientFunds"
  ELSE "ok"

TransferBegin(p, user, from, to, amt, cur) ==
  LET src == FindAccount(from)
      dst == FindAccount(to)
      err == TransferCheck(user, from, to, src, dst, amt, cur)
      dto == [NoArgs EXCEPT !.user = user, !.acct = from, !.to = to, !.amt = amt, !.cur = cur]
      l == IF err \in {"ok", "InsufficientFunds"}
           THEN [Started(amt) EXCEPT !.acct = src, !.dest = dst, !.available = balances[src]]
           ELSE Started(amt)
  IN  /\ Enter(p)
      /\ IF err # "ok"
         THEN Reject(p, "transfer", dto, err, l)
         ELSE Begin(p, "transfer", dto, l, "insert")
      /\ UNCHANGED storeVars

\* ------------------------------------------------------- getSystemAccount
SysKey(p) == CacheKey(Purpose(op[p]), args[p].cur)

SysLookup(p) ==
  LET key == SysKey(p)
      found == FindSystemAccount(key[1], key[2])
  IN  /\ pc[p] = "sys"
      /\ IF sysCache[key] # 0
         THEN /\ Step(p, "insert", [loc[p] EXCEPT !.sysId = sysCache[key]])
              /\ UNCHANGED sysCache
         ELSE IF found # 0
         THEN /\ sysCache' = [sysCache EXCEPT ![key] = found]
              /\ Step(p, "insert", [loc[p] EXCEPT !.sysId = found])
         ELSE /\ Step(p, "sys_acct", loc[p])
              /\ UNCHANGED sysCache
      /\ UNCHANGED <<accounts, balances, balanceCurrency, journal, aged, authVars, cache, nextTx, ops, wbal, wtx, made>>

SysInsertAccount(p) ==
  LET key == SysKey(p)
  IN  /\ pc[p] = "sys_acct"
      /\ accounts' = Append(accounts, SystemAccountDoc(key[1], key[2]))
      /\ Step(p, "sys_bal", [loc[p] EXCEPT !.sysId = Len(accounts) + 1])
      /\ made' = [made EXCEPT ![p] = TRUE]
      /\ UNCHANGED <<balances, balanceCurrency, journal, aged, authVars, cache, sysCache, nextTx, ops, wbal, wtx>>

SysInsertBalance(p) ==
  /\ pc[p] = "sys_bal"
  /\ balances' = balances @@ (loc[p].sysId :> 0)
  /\ balanceCurrency' = balanceCurrency @@ (loc[p].sysId :> SysKey(p)[2])
  /\ Step(p, "sys_ret", loc[p])
  /\ UNCHANGED <<accounts, journal, aged, authVars, cache, sysCache, nextTx, ops, wbal, wtx, made>>

SysReturn(p) ==
  /\ pc[p] = "sys_ret"
  /\ sysCache' = [sysCache EXCEPT ![SysKey(p)] = loc[p].sysId]
  /\ Step(p, "insert", loc[p])
  /\ UNCHANGED <<accounts, balances, balanceCurrency, journal, aged, authVars, cache, nextTx, ops, wbal, wtx, made>>

\* ------------------------------------------------------ transaction.save
\* new Transaction({...}) of the method the task runs
NewTransaction(p) ==
  LET a == args[p]
      l == loc[p]
      o == snapJnl[p][l.i]
  IN  CASE op[p] = "deposit" ->
             Tx(l.txid, "DEPOSIT", a.user, DepositEntries(l.acct, l.sysId, a.amt), a.amt,
                a.cur, "", accounts[l.acct].num, "PROCESSING", l.txid, 0)
        [] op[p] = "withdrawal" ->
             Tx(l.txid, "WITHDRAWAL", a.user, DebitEntries(l.acct, l.sysId, a.amt), a.amt,
                a.cur, accounts[l.acct].num, "", "PROCESSING", l.txid, 0)
        [] op[p] = "fee" ->
             Tx(l.txid, "FEE", a.user, DebitEntries(l.acct, l.sysId, a.amt), a.amt,
                a.cur, accounts[l.acct].num, "", "PROCESSING", l.txid, 0)
        [] op[p] = "transfer" ->
             Tx(l.txid, "TRANSFER", a.user, TransferEntries(l.acct, l.dest, a.amt), a.amt,
                a.cur, accounts[l.acct].num, accounts[l.dest].num, "PROCESSING", l.txid, 0)
        [] OTHER ->
             [Tx(l.txid, "REVERSAL", a.user, ReversedEntries(o.entries), o.amount,
                 o.cur, o.to, o.from, "PROCESSING", a.orig, o.id)
                EXCEPT !.reversalReason = a.why]

\* the unique index on transactionId: the session sees a document with the id
IdTaken(p, id) == id \in JournalIds(snapJnl[p])

\* an insert whose key another session holds, or has committed since the
\* snapshot, is a write conflict like any other write
NoInsertError(p, t) == "ok"
InsertError(p, t) ==
  IF ~EntriesValid(t.entries) THEN "BadRequest:validation"
  ELSE IF IdTaken(p, t.id) THEN "DuplicateKey"
  ELSE IF WriteConflict(p, TxDoc(t.id)) THEN "WriteConflict"
  ELSE "ok"

InsertTransaction(p) ==
  LET t == NewTransaction(p)
      err == InsertError(p, t)
  IN  /\ pc[p] = "insert"
      /\ IF err # "ok"
         THEN Abort(p, err, loc[p])
         ELSE /\ wtx' = [wtx EXCEPT ![p] = Append(@, t)]
              /\ Step(p, IF op[p] = "reversal" THEN "rev_entry" ELSE "save",
                      [loc[p] EXCEPT !.j = 1])
              /\ UNCHANGED <<wbal, made>>
      /\ UNCHANGED <<storeVars, nextTx, ops>>

\* --------------------------------------------------- accountBalance.save
\* the balance the method computes for the customer (source) account
KeepBalance(kind, current, amount) == current
NewBalance(kind, current, amount) ==
  IF kind = "deposit" THEN current + amount ELSE current - amount

SaveBalance(p) ==
  LET a == loc[p].acct
  IN  /\ pc[p] = "save"
      /\ IF WriteConflict(p, BalDoc(a))
         THEN Abort(p, "WriteConflict", loc[p])
         ELSE /\ wbal' = [wbal EXCEPT ![p] =
                            (a :> NewBalance(op[p], loc[p].available, args[p].amt)) @@ @]
              /\ Step(p, IF op[p] = "transfer" THEN "save_dest" ELSE "commit", loc[p])
              /\ UNCHANGED <<wtx, made>>
      /\ UNCHANGED <<storeVars, nextTx, ops>>

SaveDestination(p) ==
  LET d == loc[p].dest
  IN  /\ pc[p] = "save_dest"
      /\ IF WriteConflict(p, BalDoc(d))
         THEN Abort(p, "WriteConflict", loc[p])
         ELSE /\ wbal' = [wbal EXCEPT ![p] = (d :> snapBal[p][d] + args[p].amt) @@ @]
              /\ Step(p, "commit", loc[p])
              /\ UNCHANGED <<wtx, made>>
      /\ UNCHANGED <<storeVars, nextTx, ops>>

\* ------------------------------------------------------ commitTransaction
SetStatus(w, id, status, reason) ==
  [k \in 1..Len(w) |-> IF w[k].id = id
                       THEN [w[k] EXCEPT !.status = status, !.reason = reason]
                       ELSE w[k]]

\* the documents a commit of p makes stale for the sessions still open
Outdate(p) ==
  [q \in Procs |-> IF q = p THEN {}
                   ELSE IF InTxn(q) THEN stale[q] \cup Written(p)
                   ELSE stale[q]]

Publication(p, j) ==
  /\ journal' = j
  /\ balances' = CommittedBalances(p)
  /\ balanceCurrency' = balanceCurrency
  /\ stale' = Outdate(p)
  /\ Leave(p)
  /\ ret' = Return(p, op[p], "ok", args[p], loc[p], TRUE)

\* status = COMPLETED, save, commitTransaction of the five primitives: the
\* transaction the session inserted joins the collection
Commit(p) ==
  /\ pc[p] = "commit"
  /\ Publication(p, journal \o SetStatus(wtx[p], loc[p].txid, "COMPLETED", ""))
  /\ UNCHANGED <<accounts, aged, authVars, cache, sysCache, nextTx, ops>>

\* ----------------------------------------------------- reverseTransaction
NeverReversed(o, r) == IF o = 0 THEN "NotFound" ELSE "ok"
ReversalCheck(o, r) ==
  IF o = 0 THEN "NotFound"
  ELSE IF r # 0 THEN "BadRequest:reversed"
  ELSE "ok"

\* reversalData.reason of the requests
Reason == "requested"

\* Transaction.findOne({transactionId, status: COMPLETED})
FindAnyStatus(orig) == First({k \in 1..Len(journal) : journal[k].id = orig})
FindCompleted(orig) ==
  First({k \in 1..Len(journal) : journal[k].id = orig /\ journal[k].status = "COMPLETED"})

ReversalAs(p, user, role, orig) ==
  LET o == FindCompleted(orig)
      r == First({k \in 1..Len(journal) :
                    journal[k].orig = orig /\ journal[k].type = "REVERSAL"})
      err == ReversalCheck(o, r)
      dto == [NoArgs EXCEPT !.user = user, !.role = role, !.orig = orig, !.why = Reason]
  IN  /\ Enter(p)
      /\ IF err # "ok"
         THEN Reject(p, "reversal", dto, err, Started(0))
         ELSE Begin(p, "reversal", dto, [Started(0) EXCEPT !.i = o], "insert")
      /\ UNCHANGED storeVars

ReversalBegin(p, orig) == ReversalAs(p, Caller, "", orig)

\* one turn of a loop over entries: findOne, new balance, save
EntryError(p, e) ==
  IF ~HasBalance(p, e.acct) THEN "NotFound"
  ELSE IF e.side = "DEBIT" /\ ReadBalance(p, e.acct) - e.amt < 0 THEN "InsufficientFunds"
  ELSE IF WriteConflict(p, BalDoc(e.acct)) THEN "WriteConflict"
  ELSE "ok"

EntryBalance(p, e) ==
  IF e.side = "CREDIT" THEN ReadBalance(p, e.acct) + e.amt
  ELSE ReadBalance(p, e.acct) - e.amt

ReversalEntry(p) ==
  LET entries == wtx[p][1].entries
      e == entries[loc[p].j]
      err == EntryError(p, e)
  IN  /\ pc[p] = "rev_entry"
      /\ IF err # "ok"
         THEN Abort(p, err, IF err = "InsufficientFunds"
                            THEN [loc[p] EXCEPT !.acct = e.acct,
                                                !.available = ReadBalance(p, e.acct),
                                                !.requested = e.amt]
                            ELSE loc[p])
         ELSE /\ wbal' = [wbal EXCEPT ![p] = (e.acct :> EntryBalance(p, e)) @@ @]
              /\ Step(p, IF loc[p].j = Len(entries) THEN "commit" ELSE "rev_entry",
                      [loc[p] EXCEPT !.j = @ + 1])
              /\ UNCHANGED <<wtx, made>>
      /\ UNCHANGED <<storeVars, nextTx, ops>>

\* ---------------------------------------------- processPendingTransactions
AnyIds(j) == [k \in 1..Len(j) |-> j[k].id]
AnyAge(j) ==
  LET sel == SelectSeq(j, LAMBDA t : t.status = "PENDING")
  IN  [k \in 1..Len(sel) |-> sel[k].id]
PendingIds(j) ==
  LET sel == SelectSeq(j, LAMBDA t : t.status = "PENDING" /\ t.id \in aged)
  IN  [k \in 1..Len(sel) |-> sel[k].id]

SweepBegin(p) ==
  LET list == PendingIds(journal)
  IN  /\ Enter(p)
      /\ Begin(p, "sweep", NoArgs, [Started(0) EXCEPT !.list = list, !.i = 1],
               IF list = <<>> THEN "swp_commit" ELSE "swp_mark")
      /\ UNCHANGED storeVars

SweepDoc(p) ==
  LET id == loc[p].list[loc[p].i]
  IN  snapJnl[p][FindTx(snapJnl[p], id)]

\* transaction.status = PROCESSING; save
SweepMark(p) ==
  LET t == SweepDoc(p)
  IN  /\ pc[p] = "swp_mark"
      /\ IF WriteConflict(p, TxDoc(t.id))
         THEN Abort(p, "TransactionError", loc[p])
         ELSE /\ wtx' = [wtx EXCEPT ![p] = Append(@, [t EXCEPT !.status = "PROCESSING"])]
              /\ Step(p, "swp_entry", [loc[p] EXCEPT !.j = 1])
              /\ UNCHANGED <<wbal, made>>
      /\ UNCHANGED <<storeVars, nextTx, ops>>

StopSweep(p) == "swp_commit"
SweepNext(p) == IF loc[p].i = Len(loc[p].list) THEN "swp_commit" ELSE "swp_mark"

SweepEntry(p) ==
  LET t == SweepDoc(p)
      e == t.entries[loc[p].j]
      err == EntryError(p, e)
  IN  /\ pc[p] = "swp_entry"
      /\ CASE err = "WriteConflict" ->
                Abort(p, "TransactionError", loc[p])
           [] err \in {"NotFound", "InsufficientFunds"} ->
                /\ wtx' = [wtx EXCEPT ![p] = SetStatus(@, t.id, "FAILED", err)]
                /\ Step(p, SweepNext(p),
                        [loc[p] EXCEPT !.failed = Append(@, t.id), !.i = @ + 1])
                /\ UNCHANGED <<wbal, made>>
           [] OTHER ->
                /\ wbal' = [wbal EXCEPT ![p] = (e.acct :> EntryBalance(p, e)) @@ @]
                /\ IF loc[p].j = Len(t.entries)
                   THEN /\ wtx' = [wtx EXCEPT ![p] = SetStatus(@, t.id, "COMPLETED", "")]
                        /\ Step(p, SweepNext(p),
                                [loc[p] EXCEPT !.processed = Append(@, t.id), !.i = @ + 1])
                   ELSE /\ Step(p, "swp_entry", [loc[p] EXCEPT !.j = @ + 1])
                        /\ UNCHANGED wtx
                /\ UNCHANGED made
      /\ UNCHANGED <<storeVars, nextTx, ops>>

SweepCommit(p) ==
  /\ pc[p] = "swp_commit"
  /\ Publication(p, Publish(journal, wtx[p]))
  /\ UNCHANGED <<accounts, aged, authVars, cache, sysCache, nextTx, ops>>

\* ------------------------------------------- Transaction.createWithEntries
\* one unit moved between the two customer accounts, either entry first
PendingEntries ==
  {<<Entry(a, s, 1), Entry(3 - a, IF s = "DEBIT" THEN "CREDIT" ELSE "DEBIT", 1)>> :
     <<a, s>> \in {1, 2} \X {"DEBIT", "CREDIT"}}

\* a transaction saved without a status is PENDING (the schema default).  The
\* caller's session holds nothing but this insert, and the step is its commit;
\* it is placed between service calls, where every later call finds it.
CreateWithEntries(entries, amount) ==
  /\ ops < MaxOps
  /\ \A q \in Procs : pc[q] = "idle"
  /\ EntriesValid(entries)
  /\ nextTx \notin JournalIds(journal)
  /\ nextTx' = nextTx + 1
  /\ ops' = ops + 1
  /\ journal' = Append(journal, Tx(nextTx, "TRANSFER", Caller, entries, amount, "USD",
                                   "", "", "PENDING", nextTx, 0))
  /\ ret' = NoRet
  /\ UNCHANGED <<accounts, balances, balanceCurrency, aged, authVars, cache, sysCache, taskVars>>

\* 60 s pass: every transaction stored so far is older than the sweep's threshold
AdvanceClock ==
  /\ \E k \in 1..Len(journal) : journal[k].status = "PENDING" /\ journal[k].id \notin aged
  /\ aged' = JournalIds(journal)
  /\ ret' = NoRet
  /\ UNCHANGED <<accounts, balances, balanceCurrency, journal, sysCache, authVars, cache, nextTx, ops, taskVars>>

\* ---------------------------------------------------------- specification
\* the keys of the response cache: transactions:<user>:..., transactions:stats:<user>
ResponseKeys == {"transactions", "stats"} \X Users

\* security of a user who has not failed a login: no attempts, lockedUntil unset
NoAttempts == [failedLoginAttempts |-> 0, lockedUntil |-> 0]

\* the service has just started over a store of customer accounts and of
\* transactions jnl, created more than 60 s ago
Boot(accts, opening, jnl) ==
  /\ accounts = accts
  /\ balances = opening
  /\ balanceCurrency = [a \in DOMAIN opening |-> accts[a].cur]
  /\ users = NoAttempts
  /\ clock = 0
  /\ failures = 0
  /\ cache = [k \in ResponseKeys |-> <<>>]
  /\ journal = jnl
  /\ aged = JournalIds(jnl)
  /\ sysCache = [k \in CacheKeys |-> 0]
  /\ nextTx = Len(jnl) + 1
  /\ ops = 0
  /\ pc = [p \in Procs |-> "idle"]
  /\ op = [p \in Procs |-> "none"]
  /\ args = [p \in Procs |-> NoArgs]
  /\ ret = NoRet
  /\ loc = [p \in Procs |-> NoLoc]
  /\ snapBal = [p \in Procs |-> EmptyFn]
  /\ snapJnl = [p \in Procs |-> <<>>]
  /\ wbal = [p \in Procs |-> EmptyFn]
  /\ wtx = [p \in Procs |-> <<>>]
  /\ stale = [p \in Procs |-> {}]
  /\ made = [p \in Procs |-> FALSE]

Start(accts, opening) == Boot(accts, opening, <<>>)

Init == Start(<<Customer("A", "u1", "USD"), Customer("B", "u2", "USD")>>, InitBalance)

\* the requests tried: every valid one, and one for each way of being refused
AccountRequests ==
  {<<n, m, "USD">> : n \in {"A", "B"}, m \in Amounts} \cup {<<"Z", 1, "USD">>, <<"A", 1, "EUR">>}

TransferRequests ==
  {<<"u1", "A", "B", m, "USD">> : m \in Amounts}
    \cup {<<"u2", "B", "A", m, "USD">> : m \in Amounts}
    \cup {<<"u1", "A", "A", 1, "USD">>, <<"u1", "Z", "B", 1, "USD">>, <<"u1", "A", "Z", 1, "USD">>,
          <<"u1", "A", "B", 1, "EUR">>, <<"u2", "A", "B", 1, "USD">>}

Deposit(p) == \E r \in AccountRequests : DepositBegin(p, r[1], r[2], r[3])

Withdrawal(p) == \E r \in AccountRequests : WithdrawalBegin(p, r[1], r[2], r[3])

Fee(p) == \E r \in AccountRequests : FeeBegin(p, r[1], r[2], r[3])

Transfer(p) == \E r \in TransferRequests : TransferBegin(p, r[1], r[2], r[3], r[4], r[5])

Reversal(p) == \E o \in 1..nextTx : ReversalBegin(p, o)

Submit == \E e \in PendingEntries, m \in Amounts : CreateWithEntries(e, m)

Next ==
  \/ \E p \in Procs : Deposit(p)
  \/ \E p \in Procs : Withdrawal(p)
  \/ \E p \in Procs : Fee(p)
  \/ \E p \in Procs : Transfer(p)
  \/ \E p \in Procs : Reversal(p)
  \/ \E p \in Procs : SweepBegin(p)
  \/ \E p \in Procs : SysLookup(p)
  \/ \E p \in Procs : SysInsertAccount(p)
  \/ \E p \in Procs : SysInsertBalance(p)
  \/ \E p \in Procs : SysReturn(p)
  \/ \E p \in Procs : InsertTransaction(p)
  \/ \E p \in Procs : SaveBalance(p)
  \/ \E p \in Procs : SaveDestination(p)
  \/ \E p \in Procs : ReversalEntry(p)
  \/ \E p \in Procs : Commit(p)
  \/ \E p \in Procs : SweepMark(p)
  \/ \E p \in Procs : SweepEntry(p)
  \/ \E p \in Procs : SweepCommit(p)
  \/ Submit
  \/ AdvanceClock

Spec == Init /\ [][Next]_vars

\* the four direct operations alone: no reversal, no pending transaction
NextDirect ==
  \/ \E p \in Procs : Deposit(p)
  \/ \E p \in Procs : Withdrawal(p)
  \/ \E p \in Procs : Fee(p)
  \/ \E p \in Procs : Transfer(p)
  \/ \E p \in Procs : SysLookup(p)
  \/ \E p \in Procs : SysInsertAccount(p)
  \/ \E p \in Procs : SysInsertBalance(p)
  \/ \E p \in Procs : SysReturn(p)
  \/ \E p \in Procs : InsertTransaction(p)
  \/ \E p \in Procs : SaveBalance(p)
  \/ \E p \in Procs : SaveDestination(p)
  \/ \E p \in Procs : Commit(p)

SpecDirect == Init /\ [][NextDirect]_vars

\* the five primitives: the direct operations and reverseTransaction
NextPrimitives ==
  \/ NextDirect
  \/ \E p \in Procs : Reversal(p)
  \/ \E p \in Procs : ReversalEntry(p)

SpecPrimitives == Init /\ [][NextPrimitives]_vars

\* transfers of 70 out of an account holding 100: one to B and one to C in
\* either order, and whatever is asked after the two
InitS6 ==
  Start(<<Customer("A", "u1", "USD"), Customer("B", "u2", "USD"), Customer("C", "u2", "USD")>>,
        <<100, 0, 0>>)

Issued(to) ==
  \/ \E q \in Procs : args[q].to = to
  \/ \E k \in 1..Len(journal) : journal[k].to = to

TransferS6(p) ==
  \E to \in {"B", "C"} :
    /\ ops = 1 => ~Issued(to)
    /\ TransferBegin(p, "u1", "A", to, 70, "USD")

NextS6 ==
  \/ \E p \in Procs : TransferS6(p)
  \/ \E p \in Procs : InsertTransaction(p)
  \/ \E p \in Procs : SaveBalance(p)
  \/ \E p \in Procs : SaveDestination(p)
  \/ \E p \in Procs : Commit(p)

SpecS6 == InitS6 /\ [][NextS6]_vars

\* a batch of two old PENDING transactions, A to B declared in USD and C to B
\* declared in EUR, is waiting when the service starts; sweeps run beside
\* transfers out of A and C
Batch(from, to, id, cur) ==
  Tx(id, "TRANSFER", Caller, TransferEntries(from, to, 1), 1, cur, "", "", "PENDING", id, 0)

InitSweep ==
  Boot(<<Customer("A", "u1", "USD"), Customer("B", "u2", "USD"), Customer("C", "u2", "USD")>>,
       <<1, 0, 1>>, <<Batch(1, 2, 1, "USD"), Batch(3, 2, 2, "EUR")>>)

TransferSweep(p) ==
  \E r \in {<<"u1", "A", "B">>, <<"u2", "C", "B">>} :
    TransferBegin(p, r[1], r[2], r[3], 1, "USD")

NextSweep ==
  \/ \E p \in Procs : SweepBegin(p)
  \/ \E p \in Procs : SweepMark(p)
  \/ \E p \in Procs : SweepEntry(p)
  \/ \E p \in Procs : SweepCommit(p)
  \/ \E p \in Procs : TransferSweep(p)
  \/ \E p \in Procs : InsertTransaction(p)
  \/ \E p \in Procs : SaveBalance(p)
  \/ \E p \in Procs : SaveDestination(p)
  \/ \E p \in Procs : Commit(p)

SpecSweep == InitSweep /\ [][NextSweep]_vars

\* generateTransactionId is a clock reading and four random bytes: nothing
\* keeps it from handing out an id it handed out before
Collide ==
  /\ nextTx > 1
  /\ nextTx' \in 1..(nextTx - 1)
  /\ ret' = NoRet
  /\ UNCHANGED <<storeVars, taskVars, ops>>

\* transfers whose minted id may be one that is already in use
NextIds ==
  \/ \E p \in Procs : Transfer(p)
  \/ \E p \in Procs : InsertTransaction(p)
  \/ \E p \in Procs : SaveBalance(p)
  \/ \E p \in Procs : SaveDestination(p)
  \/ \E p \in Procs : Commit(p)
  \/ Collide

SpecIds == Init /\ [][NextIds]_vars

\* ------------------------------------------------------- AccountService
\* a call of the account service hands back its result
AccountReturn(kind, result, a) == [NoRet EXCEPT !.op = kind, !.res = result, !.acct = a]

\* createAccount: the account and its balance row, opened at initialBalance,
\* are saved in one session and committed together
CreateAccount(owner, cur, initialBalance) ==
  /\ ops < MaxOps
  /\ \E num \in AccountNumbers \ {accounts[i].num : i \in 1..Len(accounts)} :
       accounts' = Append(accounts, Customer(num, owner, cur))
  /\ balances' = balances @@ ((Len(accounts) + 1) :> initialBalance)
  /\ balanceCurrency' = balanceCurrency @@ ((Len(accounts) + 1) :> cur)
  /\ ops' = ops + 1
  /\ ret' = AccountReturn("createAccount", "ok", Len(accounts) + 1)
  /\ UNCHANGED <<journal, aged, authVars, cache, sysCache, nextTx, taskVars>>

\* updateBalance: the balance row is loaded and saved without a session; the
\* save waits while an open session holds a write on the row, and sessions
\* that read the row earlier are outdated by it
UpdateBalance(a, amount) ==
  /\ ops < MaxOps
  /\ \A q \in Procs : InTxn(q) => BalDoc(a) \notin Written(q)
  /\ ops' = ops + 1
  /\ IF a \in DOMAIN balances
     THEN /\ balances' = [balances EXCEPT ![a] = amount]
          /\ stale' = [q \in Procs |-> IF InTxn(q) THEN stale[q] \cup {BalDoc(a)} ELSE stale[q]]
          /\ ret' = AccountReturn("updateBalance", "ok", a)
     ELSE /\ ret' = AccountReturn("updateBalance", "NotFound", a)
          /\ UNCHANGED <<balances, stale>>
  /\ UNCHANGED <<accounts, balanceCurrency, journal, aged, authVars, cache, sysCache, nextTx, pc, op, args, loc,
                 snapBal, snapJnl, wbal, wtx, made>>

OpenAccount ==
  \E owner \in Users, cur \in Currencies, initialBalance \in 0..MaxAmount :
    CreateAccount(owner, cur, initialBalance)

SetBalance == \E a \in 1..(Len(accounts) + 1), amount \in 0..MaxAmount : UpdateBalance(a, amount)

\* the account service beside transfers
NextAccounts ==
  \/ \E p \in Procs : Transfer(p)
  \/ \E p \in Procs : InsertTransaction(p)
  \/ \E p \in Procs : SaveBalance(p)
  \/ \E p \in Procs : SaveDestination(p)
  \/ \E p \in Procs : Commit(p)
  \/ OpenAccount
  \/ SetBalance

SpecAccounts == Init /\ [][NextAccounts]_vars

\* the role a request's token carries
Roles == {"user", "admin"}

\* mapAccountToResponseDTO: the account as the service hands it to the
\* controllers
MapAccountToResponseDTO(a) ==
  [id |-> a, accountNumber |-> accounts[a].num, accountType |-> accounts[a].type,
   currency |-> accounts[a].cur, balance |-> balances[a], isActive |-> accounts[a].active]

\* reading a property of an object that may not have it
Property(obj, name) == IF name \in DOMAIN obj THEN obj[name] ELSE "undefined"

\* closeAccount of the controller, with updateAccount({isActive: false}) of
\* the service: an account that holds nothing is closed. Closures are taken
\* between the calls of the ledger.
CloseAccount(user, role, a) ==
  /\ ops < MaxOps
  /\ \A q \in Procs : pc[q] = "idle"
  /\ ops' = ops + 1
  /\ IF Property(MapAccountToResponseDTO(a), "userId") # user /\ role # "admin"
     THEN /\ ret' = AccountReturn("closeAccount", "Forbidden", a)
          /\ UNCHANGED accounts
     ELSE IF balances[a] > 0
     THEN /\ ret' = AccountReturn("closeAccount", "BadRequest:balance", a)
          /\ UNCHANGED accounts
     ELSE /\ ret' = AccountReturn("closeAccount", "ok", a)
          /\ accounts' = [accounts EXCEPT ![a].active = FALSE]
  /\ UNCHANGED <<balances, balanceCurrency, journal, aged, authVars, cache, sysCache, nextTx, taskVars>>

Close ==
  \E user \in Users, role \in Roles,
     a \in {i \in 1..Len(accounts) : accounts[i].type # "SYSTEM"} :
    CloseAccount(user, role, a)

\* transfers and reversals with accounts being closed in between
NextClose ==
  \/ \E p \in Procs : Transfer(p)
  \/ \E p \in Procs : Reversal(p)
  \/ \E p \in Procs : InsertTransaction(p)
  \/ \E p \in Procs : SaveBalance(p)
  \/ \E p \in Procs : SaveDestination(p)
  \/ \E p \in Procs : ReversalEntry(p)
  \/ \E p \in Procs : Commit(p)
  \/ Close

SpecClose == Init /\ [][NextClose]_vars

\* accounts of two currencies: A and C hold USD, B holds EUR; every direct
\* operation is asked for in either currency
InitCurrency ==
  Start(<<Customer("A", "u1", "USD"), Customer("B", "u2", "EUR"), Customer("C", "u1", "USD")>>,
        <<1, 1, 0>>)

CurrencyRequests == {"A", "B"} \X Currencies

DepositCurrency(p) == \E r \in CurrencyRequests : DepositBegin(p, r[1], 1, r[2])

WithdrawalCurrency(p) == \E r \in CurrencyRequests : WithdrawalBegin(p, r[1], 1, r[2])

FeeCurrency(p) == \E r \in CurrencyRequests : FeeBegin(p, r[1], 1, r[2])

TransferCurrency(p) ==
  \E r \in {<<"u1", "A", "B">>, <<"u2", "B", "A">>, <<"u1", "A", "C">>}, cur \in Currencies :
    TransferBegin(p, r[1], r[2], r[3], 1, cur)

NextCurrency ==
  \/ \E p \in Procs : DepositCurrency(p)
  \/ \E p \in Procs : WithdrawalCurrency(p)
  \/ \E p \in Procs : FeeCurrency(p)
  \/ \E p \in Procs : TransferCurrency(p)
  \/ \E p \in Procs : SysLookup(p)
  \/ \E p \in Procs : SysInsertAccount(p)
  \/ \E p \in Procs : SysInsertBalance(p)
  \/ \E p \in Procs : SysReturn(p)
  \/ \E p \in Procs : InsertTransaction(p)
  \/ \E p \in Procs : SaveBalance(p)
  \/ \E p \in Procs : SaveDestination(p)
  \/ \E p \in Procs : Commit(p)

SpecCurrency == InitCurrency /\ [][NextCurrency]_vars

\* ------------------------------------- POST /:transactionId/reverse
\* hasRole(roles) of the route
HasRole(roles, role) == role \in roles

\* what stands between the request and the service: hasRole(['admin']) of
\* the route, the role check of the controller, and its look at the original
NoGuard(role, orig) == "ok"
ReverseGuard(role, orig) ==
  IF ~HasRole({"admin"}, role) THEN "Forbidden"
  ELSE IF role # "admin" THEN "Forbidden"
  ELSE IF orig \notin JournalIds(journal) THEN "NotFound"
  ELSE "ok"

\* the request carries the user id and the role of its token
ReverseRequest(p, user, role, orig) ==
  LET err == ReverseGuard(role, orig)
  IN  IF err # "ok"
      THEN /\ Enter(p)
           /\ Reject(p, "reversal",
                     [NoArgs EXCEPT !.user = user, !.role = role, !.orig = orig],
                     err, Started(0))
           /\ UNCHANGED storeVars
      ELSE ReversalAs(p, user, role, orig)

ReverseHttp(p) ==
  \E user \in Users, role \in Roles, orig \in 1..nextTx : ReverseRequest(p, user, role, orig)

\* transfers, and reversals asked for over HTTP
NextReverse ==
  \/ \E p \in Procs : Transfer(p)
  \/ \E p \in Procs : ReverseHttp(p)
  \/ \E p \in Procs : InsertTransaction(p)
  \/ \E p \in Procs : SaveBalance(p)
  \/ \E p \in Procs : SaveDestination(p)
  \/ \E p \in Procs : ReversalEntry(p)
  \/ \E p \in Procs : Commit(p)

SpecReverse == Init /\ [][NextReverse]_vars

\* ------------------------------------- POST /transactions/withdrawal
\* AccountService.getAccountByNumber: any account of that number, or 0
AccountByNumber(num) == First({i \in 1..Len(accounts) : accounts[i].num = num})

\* createWithdrawal of the controller: the account is fetched from the
\* account service and its userId compared with the caller's id before the
\* ledger is called
WithdrawalGuard(user, a) ==
  IF a = 0 \/ a \notin DOMAIN balances THEN "NotFound"
  ELSE IF Property(MapAccountToResponseDTO(a), "userId") # user THEN "Forbidden"
  ELSE "ok"

WithdrawalRequest(p, user, num, amt, cur) ==
  LET err == WithdrawalGuard(user, AccountByNumber(num))
  IN  IF err # "ok"
      THEN /\ Enter(p)
           /\ Reject(p, "withdrawal",
                     [NoArgs EXCEPT !.user = user, !.acct = num, !.amt = amt, !.cur = cur],
                     err, Started(amt))
           /\ UNCHANGED storeVars
      ELSE DebitAs(p, "withdrawal", user, num, amt, cur)

WithdrawHttp(p) ==
  \E user \in Users, r \in AccountRequests : WithdrawalRequest(p, user, r[1], r[2], r[3])

\* withdrawals asked for over HTTP beside deposits
NextWithdraw ==
  \/ \E p \in Procs : WithdrawHttp(p)
  \/ \E p \in Procs : Deposit(p)
  \/ \E p \in Procs : SysLookup(p)
  \/ \E p \in Procs : SysInsertAccount(p)
  \/ \E p \in Procs : SysInsertBalance(p)
  \/ \E p \in Procs : SysReturn(p)
  \/ \E p \in Procs : InsertTransaction(p)
  \/ \E p \in Procs : SaveBalance(p)
  \/ \E p \in Procs : Commit(p)

SpecWithdraw == Init /\ [][NextWithdraw]_vars

\* ------------------------------------------- two operations, no account shared
\* a deposit to A (counter-party DEPOSITS) and a withdrawal from C
\* (counter-party WITHDRAWALS), each asked for once, by whichever task is free
InitDisjoint ==
  Start(<<Customer("A", "u1", "USD"), Customer("B", "u2", "USD"), Customer("C", "u1", "USD")>>,
        <<1, 0, 1>>)

DepositOnce(p) ==
  /\ \A q \in Procs : op[q] # "deposit"
  /\ \A k \in 1..Len(journal) : journal[k].type # "DEPOSIT"
  /\ DepositBegin(p, "A", 1, "USD")

WithdrawalOnce(p) ==
  /\ \A q \in Procs : op[q] # "withdrawal"
  /\ \A k \in 1..Len(journal) : journal[k].type # "WITHDRAWAL"
  /\ WithdrawalBegin(p, "C", 1, "USD")

NextDisjoint ==
  \/ \E p \in Procs : DepositOnce(p)
  \/ \E p \in Procs : WithdrawalOnce(p)
  \/ \E p \in Procs : SysLookup(p)
  \/ \E p \in Procs : SysInsertAccount(p)
  \/ \E p \in Procs : SysInsertBalance(p)
  \/ \E p \in Procs : SysReturn(p)
  \/ \E p \in Procs : InsertTransaction(p)
  \/ \E p \in Procs : SaveBalance(p)
  \/ \E p \in Procs : Commit(p)

SpecDisjoint == InitDisjoint /\ [][NextDisjoint]_vars

\* the error the HTTP layer answers with: an ApiError as it is, a duplicate
\* key (code 11000) as Conflict, any other server error as DatabaseError
ErrorHandler(res) ==
  CASE res = "DuplicateKey" -> "Conflict"
    [] res = "WriteConflict" -> "DatabaseError"
    [] OTHER -> res

\* ------------------------------------------ the amount of an HTTP request
\* req.body.amount as it arrives, and parseFloat of it: a number, or NaN
Bodies == {"-1", "0", "1", "2", "abc"}

ParseFloat(body) ==
  CASE body = "-1" -> [nan |-> FALSE, val |-> 0 - 1]
    [] body = "0" -> [nan |-> FALSE, val |-> 0]
    [] body = "1" -> [nan |-> FALSE, val |-> 1]
    [] body = "2" -> [nan |-> FALSE, val |-> 2]
    [] OTHER -> [nan |-> TRUE, val |-> 0]

AnyAmount(amount) == FALSE
\* isNaN(amount) || amount <= 0
AmountGuard(amount) == amount.nan \/ amount.val <= 0

\* the controller throws BadRequestError before it calls a service
BadAmount(p, kind, dto) ==
  /\ Enter(p)
  /\ Reject(p, kind, dto, "BadRequest:amount", Started(dto.amt))
  /\ UNCHANGED storeVars

\* createDeposit of the controller; the deposit is made for req.user
DepositHttp(p) ==
  \E num \in {"A", "Z"}, body \in Bodies :
    LET amount == ParseFloat(body)
    IN  IF AmountGuard(amount)
        THEN BadAmount(p, "deposit",
                       [NoArgs EXCEPT !.user = Caller, !.acct = num, !.amt = amount.val,
                                      !.cur = "USD"])
        ELSE DepositBegin(p, num, amount.val, "USD")

\* createWithdrawal of the controller
WithdrawalHttp(p) ==
  \E user \in Users, num \in {"A", "Z"}, body \in Bodies :
    LET amount == ParseFloat(body)
    IN  IF AmountGuard(amount)
        THEN BadAmount(p, "withdrawal",
                       [NoArgs EXCEPT !.user = user, !.acct = num, !.amt = amount.val,
                                      !.cur = "USD"])
        ELSE WithdrawalRequest(p, user, num, amount.val, "USD")

\* createTransfer of the controller: the amount, the two numbers, then the
\* owner of the source account
TransferHttp(p) ==
  \E user \in Users, from \in {"A", "Z"}, to \in {"A", "B"}, body \in Bodies :
    LET amount == ParseFloat(body)
        dto == [NoArgs EXCEPT !.user = user, !.acct = from, !.to = to, !.amt = amount.val,
                              !.cur = "USD"]
        err == IF from = to THEN "BadRequest:same"
               ELSE WithdrawalGuard(user, AccountByNumber(from))
    IN  IF AmountGuard(amount)
        THEN BadAmount(p, "transfer", dto)
        ELSE IF err # "ok"
        THEN /\ Enter(p)
             /\ Reject(p, "transfer", dto, err, Started(amount.val))
             /\ UNCHANGED storeVars
        ELSE TransferBegin(p, user, from, to, amount.val, "USD")

NextAmount ==
  \/ \E p \in Procs : DepositHttp(p)
  \/ \E p \in Procs : WithdrawalHttp(p)
  \/ \E p \in Procs : TransferHttp(p)
  \/ \E p \in Procs : SysLookup(p)
  \/ \E p \in Procs : SysInsertAccount(p)
  \/ \E p \in Procs : SysInsertBalance(p)
  \/ \E p \in Procs : SysReturn(p)
  \/ \E p \in Procs : InsertTransaction(p)
  \/ \E p \in Procs : SaveBalance(p)
  \/ \E p \in Procs : Commit(p)

SpecAmount == Init /\ [][NextAmount]_vars

\* ------------------------------------ GET /accounts/:id/transactions
\* an account's _id as the string a route carries; an account number is
\* ACCT-XXXX-XXXX-XXXX and never reads as an id
IdString(a) == ToString(a)

\* getAccountTransactions of the service: the transactions whose fromAccount
\* or toAccount is the string given, newest first (page 1)
GetAccountTransactions(accountNumber) ==
  LET hits == SelectSeq(journal, LAMBDA t : t.from = accountNumber \/ t.to = accountNumber)
  IN  [k \in 1..Len(hits) |-> hits[Len(hits) + 1 - k].id]

\* getAccountTransactions of the account controller: the account is fetched
\* by req.params.id, the caller checked against it, and the same id handed
\* to the service
AccountTransactions(user, role, a) ==
  /\ ops < MaxOps
  /\ ops' = ops + 1
  /\ ret' = IF a \notin 1..Len(accounts) \/ a \notin DOMAIN balances
            THEN [data |-> <<>>, user |-> user, role |-> role]
                   @@ AccountReturn("getAccountTransactions", "NotFound", a)
            ELSE IF Property(MapAccountToResponseDTO(a), "userId") # user /\ role # "admin"
            THEN [data |-> <<>>, user |-> user, role |-> role]
                   @@ AccountReturn("getAccountTransactions", "Forbidden", a)
            ELSE [data |-> GetAccountTransactions(IdString(a)), user |-> user, role |-> role]
                   @@ AccountReturn("getAccountTransactions", "ok", a)
  /\ UNCHANGED <<storeVars, nextTx, taskVars>>

Listing ==
  \E user \in Users, role \in Roles, a \in 1..(Len(accounts) + 1) :
    AccountTransactions(user, role, a)

\* deposits and withdrawals, and the account endpoint listing them
NextListing ==
  \/ \E p \in Procs : Deposit(p)
  \/ \E p \in Procs : Withdrawal(p)
  \/ \E p \in Procs : SysLookup(p)
  \/ \E p \in Procs : SysInsertAccount(p)
  \/ \E p \in Procs : SysInsertBalance(p)
  \/ \E p \in Procs : SysReturn(p)
  \/ \E p \in Procs : InsertTransaction(p)
  \/ \E p \in Procs : SaveBalance(p)
  \/ \E p \in Procs : Commit(p)
  \/ Listing

SpecListing == Init /\ [][NextListing]_vars

\* ------------------------------------------------------ UserService.login
MaxLogins == 6
MaxClock == 45
TickMinutes == 15

\* failedLoginAttempts >= 5
MaxFailedAttempts == 5
\* Date.now() + 30 * 60 * 1000
LockMinutes == 30

\* user.security.lockedUntil && user.security.lockedUntil > new Date()
Locked(user) == user.lockedUntil # 0 /\ user.lockedUntil > clock

\* a wrong password: the counter that was read is raised by one, and from
\* the fifth on lockedUntil is set
Failed(user) ==
  [failedLoginAttempts |-> user.failedLoginAttempts + 1,
   lockedUntil |-> IF user.failedLoginAttempts + 1 >= MaxFailedAttempts
                   THEN clock + LockMinutes ELSE user.lockedUntil]

\* user.save(): the paths given a new value since the document was read are
\* set in the stored document, the others are left as stored
Save(read, new) == [f \in DOMAIN users |-> IF new[f] # read[f] THEN new[f] ELSE users[f]]

LoginReturn(p, valid, res) == [valid |-> valid] @@ Return(p, "login", res, NoArgs, NoLoc, FALSE)

\* login up to the save: the user is read, a locked account is refused, and
\* the password compared (valid: it is the user's); the document read is
\* changed in memory
LoginFind(p, valid) ==
  /\ pc[p] = "idle"
  /\ p = "p1" \/ pc["p1"] # "idle"
  /\ ops < MaxLogins
  /\ ops' = ops + 1
  /\ IF Locked(users)
     THEN /\ ret' = LoginReturn(p, valid, "Unauthorized:locked")
          /\ UNCHANGED taskVars
     ELSE /\ pc' = [pc EXCEPT ![p] = "login_save"]
          /\ op' = [op EXCEPT ![p] = "login"]
          /\ loc' = [loc EXCEPT ![p] = [valid |-> valid, read |-> users,
                                        user |-> IF valid THEN NoAttempts ELSE Failed(users)]
                                         @@ NoLoc]
          /\ ret' = NoRet
          /\ UNCHANGED <<args, snapBal, snapJnl, wbal, wtx, stale, made>>
  /\ UNCHANGED <<storeVars, nextTx>>

\* await user.save(), and the answer: the tokens, or UnauthorizedError
LoginSave(p) ==
  /\ pc[p] = "login_save"
  /\ users' = Save(loc[p].read, loc[p].user)
  /\ failures' = IF loc[p].valid THEN 0 ELSE failures + 1
  /\ ret' = LoginReturn(p, loc[p].valid, IF loc[p].valid THEN "ok" ELSE "Unauthorized:password")
  /\ Leave(p)
  /\ UNCHANGED <<accounts, balances, balanceCurrency, journal, aged, sysCache, clock, cache,
                 nextTx, ops, stale>>

\* a quarter of an hour passes; a login is answered long before
Tick ==
  /\ clock < MaxClock
  /\ \A q \in Procs : pc[q] # "login_save"
  /\ clock' = clock + TickMinutes
  /\ ret' = NoRet
  /\ UNCHANGED <<accounts, balances, balanceCurrency, journal, aged, sysCache, users, failures, cache,
                 nextTx, ops, taskVars>>

NextLogin ==
  \/ \E p \in Procs, valid \in BOOLEAN : LoginFind(p, valid)
  \/ \E p \in Procs : LoginSave(p)
  \/ Tick

SpecLogin == Init /\ [][NextLogin]_vars

\* ------------------------------ the read handlers of TransactionController
\* what a handler did for one request: the res.json calls made for it, by
\* the handler and by errorHandler, and the calls of TransactionService
Respond(kind, user, hit, sent, queries, result) ==
  [user |-> user, hit |-> hit, sent |-> sent, queries |-> queries]
    @@ AccountReturn(kind, result, 0)

\* TransactionService.getUserTransactions: the user's transactions (page 1)
UserTransactions(user) ==
  LET hits == SelectSeq(journal, LAMBDA t : t.user = user)
  IN  [k \in 1..Len(hits) |-> hits[k].id]

\* getUserTransactions and getUserTransactionStats: on a cache hit the cached
\* data is sent; the service is called; with a cache key the result is cached
\* and the X-Cache header set, which throws once a response has been sent;
\* then the result is sent, or the error handed to errorHandler, which sends
CachedRead(kind, user, shouldCache) ==
  LET cacheKey == <<kind, user>>
      hit == shouldCache /\ cache[cacheKey] # <<>>
      sentOnHit == IF hit THEN 1 ELSE 0
      data == IF kind = "stats" THEN <<Len(UserTransactions(user))>> ELSE UserTransactions(user)
      thrown == shouldCache /\ sentOnHit > 0
  IN  /\ ops < MaxOps
      /\ ops' = ops + 1
      /\ cache' = IF shouldCache THEN [cache EXCEPT ![cacheKey] = <<data>>] ELSE cache
      /\ ret' = Respond(kind, user, hit, sentOnHit + 1, 1,
                        IF thrown THEN ErrorHandler("InternalError") ELSE "ok")
      /\ UNCHANGED <<accounts, balances, balanceCurrency, journal, aged, sysCache, authVars,
                     nextTx, taskVars>>

GetUserTransactions == \E user \in Users, shouldCache \in BOOLEAN :
  CachedRead("transactions", user, shouldCache)

GetUserTransactionStats == \E user \in Users, shouldCache \in BOOLEAN :
  CachedRead("stats", user, shouldCache)

\* verifyTransaction: the transaction's data is sent; when there is none,
\* "not verified" is sent and the NotFoundError thrown on to errorHandler,
\* which sends the error
VerifyTransaction(transactionId) ==
  LET found == FindTx(journal, transactionId) # 0
      sentInTry == 1
      thrown == ~found
  IN  /\ ops < MaxOps
      /\ ops' = ops + 1
      /\ ret' = Respond("verify", "", FALSE, sentInTry + (IF thrown THEN 1 ELSE 0), 1,
                        IF thrown THEN ErrorHandler("NotFound") ELSE "ok")
      /\ UNCHANGED <<storeVars, nextTx, taskVars>>

\* the time to live of a cached response is over
Expire ==
  \E k \in ResponseKeys :
    /\ cache[k] # <<>>
    /\ cache' = [cache EXCEPT ![k] = <<>>]
    /\ ret' = NoRet
    /\ UNCHANGED <<accounts, balances, balanceCurrency, journal, aged, sysCache, authVars,
                   nextTx, ops, taskVars>>

\* deposits, and the handlers that read what they stored
NextResponses ==
  \/ \E p \in Procs : Deposit(p)
  \/ \E p \in Procs : SysLookup(p)
  \/ \E p \in Procs : SysInsertAccount(p)
  \/ \E p \in Procs : SysInsertBalance(p)
  \/ \E p \in Procs : SysReturn(p)
  \/ \E p \in Procs : InsertTransaction(p)
  \/ \E p \in Procs : SaveBalance(p)
  \/ \E p \in Procs : Commit(p)
  \/ GetUserTransactions
  \/ GetUserTransactionStats
  \/ \E transactionId \in 1..MaxOps : VerifyTransaction(transactionId)
  \/ Expire

SpecResponses == Init /\ [][NextResponses]_vars

\* ------------------------------------------------------------- properties
Completed(type) ==
  {k \in 1..Len(journal) : journal[k].type = type /\ journal[k].status = "COMPLETED"}

CustomerIds == {a \in DOMAIN balances : accounts[a].type # "SYSTEM"}

DoubleEntryClosure ==
  \A k \in 1..Len(journal) :
    journal[k].status = "COMPLETED" =>
      /\ Len(journal[k].entries) >= 2
      /\ SideSum(journal[k].entries, "DEBIT") = journal[k].amount
      /\ SideSum(journal[k].entries, "CREDIT") = journal[k].amount

RECURSIVE Total(_)
Total(b) ==
  IF DOMAIN b = {} THEN 0
  ELSE LET a == CHOOSE x \in DOMAIN b : TRUE
       IN  b[a] + Total([x \in DOMAIN b \ {a} |-> b[x]])

\* C3: the balance changes that a COMPLETED transaction applies, summed over
\* all accounts including the system counter-party accounts, are zero: the
\* commit of a deposit, withdrawal, transfer, fee or reversal leaves the sum
\* of all balances as it was.
SystemConservation ==
  [][ret'.res = "ok" /\ ret'.op # "sweep" => Total(balances') = Total(balances)]_vars

\* what the entries of one transaction add to account a
RECURSIVE Signed(_, _)
Signed(entries, a) ==
  IF entries = <<>> THEN 0
  ELSE (IF Head(entries).acct # a THEN 0
        ELSE IF Head(entries).side = "CREDIT" THEN Head(entries).amt
        ELSE 0 - Head(entries).amt)
       + Signed(Tail(entries), a)

\* what the COMPLETED transactions of journal j add to account a
RECURSIVE Deltas(_, _)
Deltas(j, a) ==
  IF j = <<>> THEN 0
  ELSE (IF Head(j).status = "COMPLETED" THEN Signed(Head(j).entries, a) ELSE 0)
       + Deltas(Tail(j), a)

ConcurrentTransfers ==
  /\ ops <= 2 /\ ret.op = "transfer" /\ ret.res # "ok" => ret.res = "InsufficientFunds"
  /\ ops = 2 /\ (\A q \in Procs : pc[q] = "idle") =>
       /\ Cardinality(Completed("TRANSFER")) = 1
       /\ Total(balances) = 100

\* C6: when a deposit, withdrawal, transfer, fee or reversal is rejected or
\* fails at any step, the committed state holds no change made by the
\* attempt: no balance row created or modified, no account created, no
\* transaction record.
AbortAtomicity ==
  ret.op \in {"deposit", "withdrawal", "transfer", "fee", "reversal"} /\ ret.res # "ok"
    => ~ret.made

\* C7: when a COMPLETED deposit, withdrawal, transfer or fee is reversed and
\* nothing else has touched its accounts, every balance, customer and system,
\* is what it was before the original was applied.  Stated for the two calls
\* alone: the customer accounts hold their opening balances again, and the
\* system accounts the zero they were created with.
ReversalRestores ==
  /\ ops = 2
  /\ Len(journal) = 2
  /\ journal[1].status = "COMPLETED"
  /\ journal[2].type = "REVERSAL"
  /\ journal[2].status = "COMPLETED"
  /\ journal[2].orig = journal[1].id
  => \A a \in DOMAIN balances :
       balances[a] = IF a \in CustomerIds THEN InitBalance[a] ELSE 0

ReversalsOf(j, o) ==
  {k \in 1..Len(j) : j[k].type = "REVERSAL" /\ j[k].status = "COMPLETED" /\ j[k].orig = o}

\* the step is a call of reverseTransaction for original o
ReversalRequested(o) ==
  /\ ops' = ops + 1
  /\ \/ ret'.op = "reversal" /\ ret'.args.orig = o
     \/ \E p \in Procs : pc[p] = "idle" /\ op'[p] = "reversal" /\ args'[p].orig = o

\* C8: in every reachable state, also after concurrent reversal requests for
\* the same original, at most one COMPLETED REVERSAL carries an original's id;
\* and a reversal requested when one exists is rejected as already reversed
\* and changes nothing.
SingleReversal ==
  /\ [](\A o \in 1..MaxOps : Cardinality(ReversalsOf(journal, o)) <= 1)
  /\ [][\A o \in 1..MaxOps :
          ReversalRequested(o) /\ ReversalsOf(journal, o) # {}
            => ret'.res = "BadRequest:reversed" /\ ~ret'.made /\ UNCHANGED storeVars]_vars

\* a transaction has been reversed, and a second request for it was refused
SingleReversalWitness ==
  /\ ret.op = "reversal"
  /\ ret.res = "BadRequest:reversed"
  /\ ReversalsOf(journal, ret.args.orig) # {}

\* C9: an operation whose commit is aborted by a write conflict with a
\* concurrent operation is run again, up to three times, and only when the
\* retries are used up does the caller see ConcurrencyExhausted: no call
\* hands the conflict itself to its caller.
ConflictsRetried ==
  /\ ret.res # "WriteConflict"
  /\ ret.res = "ConcurrencyExhausted" => ret.runs = 3

\* the step is a call of createWithdrawal for amount m on account number num
WithdrawalRequested(num, m) ==
  /\ ops' = ops + 1
  /\ \/ ret'.op = "withdrawal" /\ ret'.args.acct = num /\ ret'.args.amt = m
        /\ ret'.args.cur = "USD"
     \/ \E p \in Procs : /\ pc[p] = "idle" /\ op'[p] = "withdrawal"
                          /\ args'[p].acct = num /\ args'[p].amt = m

Applied(t, a) ==
  IF t.type = "REVERSAL" \/ a \in CustomerIds THEN Signed(t.entries, a) ELSE 0

RECURSIVE Effects(_, _)
Effects(j, a) == IF j = <<>> THEN 0 ELSE Applied(Head(j), a) + Effects(Tail(j), a)

Opening(a) == IF a \in CustomerIds THEN InitBalance[a] ELSE 0

Terminal == {"COMPLETED", "FAILED", "CANCELLED"}

Allowed ==
  {<<"PENDING", "PROCESSING">>, <<"PROCESSING", "COMPLETED">>,
   <<"PROCESSING", "FAILED">>, <<"PENDING", "CANCELLED">>}

\* document new follows document old of the same transaction
Follows(old, new) ==
  /\ old.status # new.status => <<old.status, new.status>> \in Allowed
  /\ old.status \in Terminal => new = old

\* C12: the status of a stored transaction only moves PENDING->PROCESSING,
\* PROCESSING->COMPLETED, PROCESSING->FAILED or PENDING->CANCELLED, and a
\* COMPLETED, FAILED or CANCELLED transaction is never written again: every
\* write of a session follows the document it replaces, every commit follows
\* the session's last write, and a committed terminal document stays as it is.
StatusMachine ==
  [][/\ \A k \in 1..Len(journal) :
          journal[k].status \in Terminal => journal'[k] = journal[k]
     /\ \A p \in Procs : \A i \in 1..Len(wtx'[p]) :
          IF i <= Len(wtx[p]) THEN Follows(wtx[p][i], wtx'[p][i])
          ELSE LET k == FindTx(snapJnl'[p], wtx'[p][i].id)
               IN  k # 0 => Follows(snapJnl'[p][k], wtx'[p][i])
     /\ \A p \in Procs : wtx'[p] = <<>> /\ journal' # journal =>
          \A i \in 1..Len(wtx[p]) :
            Follows(wtx[p][i], journal'[FindTx(journal', wtx[p][i].id)])]_vars

\* a sweep has committed a pending transaction as COMPLETED or FAILED, and a
\* later call has run over it
StatusMachineWitness ==
  /\ \E k \in 1..Len(journal) : journal[k].id \in aged /\ journal[k].status \in Terminal
  /\ ret.res = "ok"
  /\ ret.op \in {"sweep", "reversal"}
  /\ ret.processed = <<>>
  /\ ret.failed = <<>>

\* C13: when the sweep fails a transaction part-way through its entries, the
\* transaction ends FAILED with its failure reason set and the balance changes
\* already applied for it are undone: a sweep that completed nothing commits
\* no balance change.
SweepFailureRollsBack ==
  [][ret'.op = "sweep" /\ ret'.res = "ok" /\ ret'.processed = <<>> =>
       /\ balances' = balances
       /\ \A i \in 1..Len(ret'.failed) :
            LET t == journal'[FindTx(journal', ret'.failed[i])]
            IN  t.status = "FAILED" /\ t.reason # ""]_vars

\* C14: each swept transaction is its own commit unit: once the sweep has
\* completed a transaction, it is COMPLETED in the committed state when the
\* sweep call ends, whether later transactions of the batch fail or the batch
\* itself ends with an error.
OwnCommitUnit ==
  [][\A p \in Procs :
       op[p] = "sweep" /\ pc'[p] = "idle" =>
         \A i \in 1..Len(loc[p].processed) :
           LET k == FindTx(journal', loc[p].processed[i])
           IN  journal'[k].status = "COMPLETED"]_vars

\* C15: every COMPLETED transaction, whether a direct operation, a reversal
\* or the pending sweep completed it, has all its entries on accounts whose
\* currency is the transaction's declared currency.
CurrencyPurity ==
  \A k \in 1..Len(journal) :
    journal[k].status = "COMPLETED" =>
      \A i \in 1..Len(journal[k].entries) :
        accounts[journal[k].entries[i].acct].cur = journal[k].cur

\* C16: no two stored transactions share a transactionId, and an operation
\* whose minted id is the id of a transaction that existed when the operation
\* started is answered with Conflict, stores nothing and changes no balance.
UniqueIds(j) == \A i, k \in 1..Len(j) : j[i].id = j[k].id => i = k

IdUniqueness ==
  /\ [](UniqueIds(journal))
  /\ [][\A p \in Procs :
         pc[p] = "insert" /\ pc'[p] # "insert" /\ loc[p].txid \in JournalIds(snapJnl[p]) =>
           /\ ErrorHandler(ret'.res) = "Conflict"
           /\ ret'.task = p
           /\ pc'[p] = "idle"
           /\ wbal'[p] = EmptyFn /\ wtx'[p] = <<>>
           /\ UNCHANGED <<balances, journal>>]_vars

IdUniquenessWitness ==
  /\ ret.res = "DuplicateKey"
  /\ ret.txid \in JournalIds(journal)
  /\ Len(journal) >= 1

\* account a holds a balance after the step that it did not hold before it
BalanceSet(a) ==
  IF a \in DOMAIN balances THEN balances'[a] # balances[a] ELSE balances'[a] # 0

\* C17: every balance that is created other than 0 or changed is written by a
\* ledger operation that stores, in the same step, a balanced transaction
\* with an entry on that account; nothing else sets a balance.
LedgerOnlyWriter ==
  [][\A a \in DOMAIN balances' :
       BalanceSet(a) =>
         \E k \in 1..Len(journal') :
           /\ k > Len(journal) \/ journal'[k] # journal[k]
           /\ EntriesValid(journal'[k].entries)
           /\ \E i \in 1..Len(journal'[k].entries) : journal'[k].entries[i].acct = a]_vars

\* the SYSTEM accounts stored for a purpose and a currency
SystemAccounts(purpose, cur) ==
  {i \in 1..Len(accounts) : /\ accounts[i].type = "SYSTEM"
                            /\ accounts[i].purpose = purpose
                            /\ accounts[i].cur = cur}

\* the purpose of the system account a transaction of this type is booked on
TypePurpose(type) ==
  CASE type = "DEPOSIT"    -> "DEPOSITS"
    [] type = "WITHDRAWAL" -> "WITHDRAWALS"
    [] type = "FEE"        -> "FEES"
    [] OTHER               -> ""

\* C18: under every interleaving of deposits, withdrawals and fees, at most
\* one SYSTEM account is created for each purpose and currency, it has one
\* balance row opened at 0, and every transaction of that purpose and
\* currency has it as counter-party.
LazyCreationOnce ==
  \A key \in CacheKeys :
    /\ Cardinality(SystemAccounts(key[1], key[2])) <= 1
    /\ \A k \in 1..Len(journal) :
         TypePurpose(journal[k].type) = key[1] /\ journal[k].cur = key[2] =>
           \E i \in 1..Len(journal[k].entries) :
             journal[k].entries[i].acct \in SystemAccounts(key[1], key[2])

\* C19: a deposit, withdrawal, transfer, fee or reversal never stores a
\* transaction with an entry on an account that is missing or not active,
\* and never changes the balance of such an account.
InactiveRejected ==
  [][/\ \A k \in (Len(journal) + 1)..Len(journal') :
          \A i \in 1..Len(journal'[k].entries) :
            LET posted == journal'[k].entries[i].acct
            IN  posted \in 1..Len(accounts) /\ accounts[posted].active
      /\ \A a \in DOMAIN balances :
          balances'[a] # balances[a] => accounts[a].active]_vars

\* the step is a call by task p: it is refused at once or p starts on it
Called(p) == ops' = ops + 1 /\ (ret'.task = p \/ pc'[p] # pc[p])

Request(p) == IF ret'.task = p THEN ret'.args ELSE args'[p]

Kind(p) == IF ret'.task = p THEN ret'.op ELSE op'[p]

\* the customer accounts a request names
Referenced(r, kind) ==
  {FindAccount(r.acct)} \cup (IF kind = "transfer" THEN {FindAccount(r.to)} ELSE {})

\* the accounts are there, and one of them is not in the declared currency
Mismatch(r, kind) ==
  /\ 0 \notin Referenced(r, kind)
  /\ kind = "transfer" => r.acct # r.to
  /\ \E a \in Referenced(r, kind) : accounts[a].cur # r.cur

\* C20: a deposit, withdrawal, transfer or fee whose declared currency is not
\* the currency of every account it names is refused with the currency
\* mismatch error, and the call changes nothing: no account, balance or
\* transaction is stored and the task holds no write.
CurrencyMismatchRejected ==
  [][\A p \in Procs :
       /\ Called(p)
       /\ Kind(p) \in {"deposit", "withdrawal", "transfer", "fee"}
       /\ Mismatch(Request(p), Kind(p))
       => /\ ret'.task = p
          /\ ret'.res = "BadRequest:currency"
          /\ ~ret'.made
          /\ pc'[p] = "idle"
          /\ wbal'[p] = EmptyFn /\ wtx'[p] = <<>>
          /\ UNCHANGED storeVars]_vars

\* a transfer declared in the currency of its source and refused for the
\* currency of its destination, after other operations have gone through
CurrencyMismatchRejectedWitness ==
  /\ ret.op = "transfer"
  /\ ret.res = "BadRequest:currency"
  /\ accounts[FindAccount(ret.args.acct)].cur = ret.args.cur
  /\ accounts[FindAccount(ret.args.to)].cur # ret.args.cur
  /\ journal # <<>>

\* the request names one account twice, or a source that is not the caller's
Unauthorized(r) ==
  \/ r.acct = r.to
  \/ FindAccount(r.acct) # 0 /\ accounts[FindAccount(r.acct)].owner # r.user

\* C21: a transfer whose source and destination are the same account, or
\* whose source is not owned by the calling user, is refused and changes no
\* balance and no transaction; a transfer that commits debits an account of
\* its caller, so transfers of a user never lower another user's balance.
TransferAuthorization ==
  [][\A p \in Procs :
       /\ Called(p) /\ Kind(p) = "transfer" /\ Unauthorized(Request(p))
          => /\ ret'.task = p
             /\ ret'.res # "ok"
             /\ pc'[p] = "idle"
             /\ wbal'[p] = EmptyFn /\ wtx'[p] = <<>>
             /\ UNCHANGED storeVars
       /\ op[p] = "transfer" /\ ret'.task = p /\ ret'.res = "ok"
          => /\ args[p].acct # args[p].to
             /\ \A a \in DOMAIN balances :
                  balances'[a] < balances[a] => accounts[a].owner = args[p].user]_vars

\* a transfer out of another user's account has been refused after a
\* transfer of the owner went through
TransferAuthorizationWitness ==
  /\ ret.op = "transfer"
  /\ ret.res = "BadRequest:owner"
  /\ accounts[FindAccount(ret.args.acct)].owner # ret.args.user
  /\ Completed("TRANSFER") # {}

\* the REVERSAL transactions among the documents w
Reversals(w) == {k \in 1..Len(w) : w[k].type = "REVERSAL"}

\* C22: a reversal asked for with a role other than admin is refused with
\* Forbidden and nothing changes; a task works on a reversal, and a REVERSAL
\* transaction is written or stored, only for a caller whose role is admin.
ReversalPrivilege ==
  /\ [][\A p \in Procs :
         Called(p) /\ Kind(p) = "reversal" /\ Request(p).role # "admin"
           => /\ ret'.task = p
              /\ ret'.res = "Forbidden"
              /\ pc'[p] = "idle"
              /\ wbal'[p] = EmptyFn /\ wtx'[p] = <<>>
              /\ UNCHANGED storeVars]_vars
  /\ [](\A p \in Procs :
         op[p] = "reversal" \/ Reversals(wtx[p]) # {} => args[p].role = "admin")
  /\ [][Cardinality(Reversals(journal')) > Cardinality(Reversals(journal))
         => \E p \in Procs : op[p] = "reversal" /\ args[p].role = "admin" /\ ret'.task = p]_vars

\* a user's request to reverse a completed transfer has been refused, and
\* an admin's request has gone through
ReversalPrivilegeWitness ==
  /\ ret.op = "reversal"
  /\ ret.res = "Forbidden"
  /\ ret.args.role = "user"
  /\ Completed("TRANSFER") # {}
  /\ Completed("REVERSAL") # {}

\* C23: a reversal is refused with InsufficientFunds only for a debit that
\* would take an account other than a SYSTEM account below zero; a debit on
\* a SYSTEM account never refuses it, so the reversal of a COMPLETED
\* withdrawal or fee goes through.
SystemDebitExempt ==
  [][ret'.op = "reversal" /\ ret'.res = "InsufficientFunds"
       => accounts[ret'.acct].type # "SYSTEM"]_vars

\* the step stores exactly one more transaction: COMPLETED, of this type and
\* amount, with these entries
Recorded(type, amt, entries) ==
  /\ Len(journal') = Len(journal) + 1
  /\ SubSeq(journal', 1, Len(journal)) = journal
  /\ LET t == journal'[Len(journal')]
     IN  /\ t.type = type
         /\ t.status = "COMPLETED"
         /\ t.amount = amt
         /\ t.entries = entries

\* the step changes the balance of a by d and no other customer balance
Moved(a, d) ==
  /\ balances'[a] = balances[a] + d
  /\ \A b \in CustomerIds \ {a} : balances'[b] = balances[b]

\* the deposit that task p works on is committed in this step
DepositApplied(p) ==
  /\ ret'.res = "ok"
  /\ Moved(loc[p].acct, args[p].amt)
  /\ loc[p].sysId \in SystemAccounts("DEPOSITS", args[p].cur)
  /\ Recorded("DEPOSIT", args[p].amt,
              <<Entry(loc[p].acct, "CREDIT", args[p].amt),
                Entry(loc[p].sysId, "DEBIT", args[p].amt)>>)

\* C24: a deposit of a positive amount in the account's currency to an
\* existing active account is never refused: the call is taken up, and when
\* it returns the customer balance has grown by exactly the amount and one
\* COMPLETED DEPOSIT with entries CREDIT customer, DEBIT system(DEPOSITS) of
\* that amount has been stored.
DepositEffect ==
  [][\A p \in Procs :
       /\ Called(p) /\ Kind(p) = "deposit" /\ Request(p).amt > 0
          /\ 0 \notin Referenced(Request(p), "deposit")
          /\ ~Mismatch(Request(p), "deposit")
          => ret'.task # p
       /\ op[p] = "deposit" /\ ret'.task = p => DepositApplied(p)]_vars

TypeOf(kind) == IF kind = "withdrawal" THEN "WITHDRAWAL" ELSE "FEE"

\* the withdrawal or fee that task p works on is committed in this step
DebitApplied(p) ==
  /\ ret'.res = "ok"
  /\ Moved(loc[p].acct, 0 - args[p].amt)
  /\ loc[p].sysId \in SystemAccounts(Purpose(op[p]), args[p].cur)
  /\ Recorded(TypeOf(op[p]), args[p].amt,
              <<Entry(loc[p].acct, "DEBIT", args[p].amt),
                Entry(loc[p].sysId, "CREDIT", args[p].amt)>>)

\* C25: a withdrawal or fee of amount a on an active account holding b >= a,
\* b = a included, is taken up, and when it returns the balance is exactly
\* b - a and one COMPLETED transaction with entries DEBIT customer, CREDIT
\* system(WITHDRAWALS or FEES) of that amount has been stored.
DebitSufficiency ==
  [][\A p \in Procs :
       /\ Called(p) /\ Kind(p) \in {"withdrawal", "fee"}
          /\ 0 \notin Referenced(Request(p), Kind(p))
          /\ ~Mismatch(Request(p), Kind(p))
          /\ balances[FindAccount(Request(p).acct)] >= Request(p).amt
          => ret'.task # p
       /\ op[p] \in {"withdrawal", "fee"} /\ ret'.task = p => DebitApplied(p)]_vars

\* C26: a transfer that succeeds lowers the source balance by exactly its
\* amount, raises the destination balance by exactly its amount, changes no
\* other balance, and stores one COMPLETED TRANSFER with entries DEBIT
\* source, CREDIT destination of that amount.
TransferEffect ==
  [][\A p \in Procs :
       op[p] = "transfer" /\ ret'.task = p /\ ret'.res = "ok"
         => /\ balances'[loc[p].acct] = balances[loc[p].acct] - args[p].amt
            /\ balances'[loc[p].dest] = balances[loc[p].dest] + args[p].amt
            /\ balances'[loc[p].acct] + balances'[loc[p].dest]
                 = balances[loc[p].acct] + balances[loc[p].dest]
            /\ \A b \in DOMAIN balances \ {loc[p].acct, loc[p].dest} :
                 balances'[b] = balances[b]
            /\ Recorded("TRANSFER", args[p].amt,
                        <<Entry(loc[p].acct, "DEBIT", args[p].amt),
                          Entry(loc[p].dest, "CREDIT", args[p].amt)>>)]_vars

\* a transfer back has succeeded after a transfer there
TransferEffectWitness ==
  /\ ret.op = "transfer"
  /\ ret.res = "ok"
  /\ ret.args.acct = "B"
  /\ Cardinality(Completed("TRANSFER")) >= 2

\* the request is a withdrawal by the owner of an active account of the
\* declared currency that holds the amount
OwnerWithdrawal(r) ==
  LET a == FindAccount(r.acct)
  IN  /\ a # 0
      /\ accounts[a].owner = r.user
      /\ accounts[a].cur = r.cur
      /\ a \in DOMAIN balances
      /\ balances[a] >= r.amt

\* C27: over HTTP, the withdrawal of a user who owns the account and has the
\* funds is accepted and, when it completes, debits the balance; the
\* withdrawal of a user who does not own the account is refused with
\* Forbidden and changes nothing.
HttpWithdrawal ==
  [][\A p \in Procs :
       /\ Called(p) /\ Kind(p) = "withdrawal" /\ OwnerWithdrawal(Request(p))
          => ret'.task # p
       /\ Called(p) /\ Kind(p) = "withdrawal"
          /\ AccountByNumber(Request(p).acct) # 0
          /\ accounts[AccountByNumber(Request(p).acct)].owner # Request(p).user
          => ret'.task = p /\ ret'.res = "Forbidden" /\ UNCHANGED storeVars
       /\ op[p] = "withdrawal" /\ ret'.task = p /\ ret'.res = "ok"
          => balances'[loc[p].acct] = balances[loc[p].acct] - args[p].amt]_vars

\* an account as a transaction names it whatever the order of creation: a
\* customer account by its number, a system account by its purpose
Party(a) == IF accounts[a].type = "SYSTEM" THEN accounts[a].purpose ELSE accounts[a].num

\* a stored transaction without its id
Posting(t) ==
  [type |-> t.type, status |-> t.status, amount |-> t.amount, cur |-> t.cur,
   entries |-> {<<Party(t.entries[i].acct), t.entries[i].side, t.entries[i].amt>> :
                  i \in 1..Len(t.entries)}]

Postings == {Posting(journal[k]) : k \in 1..Len(journal)}

\* both operations have been asked for and have returned
BothDone == ops >= 2 /\ \A p \in Procs : pc[p] = "idle"

\* C28: a deposit to A and a withdrawal from C touch no account in common;
\* run one after the other in either order, or concurrently in any
\* interleaving, neither fails, and once both have returned the balances
\* are A = 2, B = 0, C = 0 and the stored transactions are the one COMPLETED
\* DEPOSIT and the one COMPLETED WITHDRAWAL.
DisjointCommute ==
  /\ ret.res \in {"none", "ok"}
  /\ ops <= 2
  /\ BothDone =>
       /\ [a \in CustomerIds |-> balances[a]] = (1 :> 2) @@ (2 :> 0) @@ (3 :> 0)
       /\ Len(journal) = 2
       /\ Postings =
            {[type |-> "DEPOSIT", status |-> "COMPLETED", amount |-> 1, cur |-> "USD",
              entries |-> {<<"A", "CREDIT", 1>>, <<"DEPOSITS", "DEBIT", 1>>}],
             [type |-> "WITHDRAWAL", status |-> "COMPLETED", amount |-> 1, cur |-> "USD",
              entries |-> {<<"C", "DEBIT", 1>>, <<"WITHDRAWALS", "CREDIT", 1>>}]}

\* both have returned, and the withdrawal committed while the deposit, begun
\* first, was still open
DisjointCommuteWitness ==
  /\ BothDone
  /\ journal[1].type = "WITHDRAWAL"
  /\ journal[1].id > journal[2].id

\* no COMPLETED transaction is stored under this id
NotCompleted(orig) ==
  \A k \in 1..Len(journal) : journal[k].id = orig => journal[k].status # "COMPLETED"

\* C29: a reversal whose originalTransactionId names no transaction, or one
\* that is PENDING, PROCESSING, FAILED or CANCELLED, is refused with NotFound;
\* it changes no balance and stores no transaction.
ReversalNeedsCompleted ==
  [][\A p \in Procs :
       Called(p) /\ Kind(p) = "reversal" /\ NotCompleted(Request(p).orig)
         => /\ ret'.task = p
            /\ ret'.res = "NotFound"
            /\ pc'[p] = "idle"
            /\ wbal'[p] = EmptyFn /\ wtx'[p] = <<>>
            /\ UNCHANGED storeVars]_vars

\* the reversal of a transaction that the sweep left FAILED has been refused
ReversalNeedsCompletedWitness ==
  /\ ret.op = "reversal"
  /\ ret.res = "NotFound"
  /\ \E k \in 1..Len(journal) : journal[k].id = ret.args.orig /\ journal[k].status = "FAILED"

Flip(side) == IF side = "DEBIT" THEN "CREDIT" ELSE "DEBIT"

\* t is the record of a reversal of o asked for with these arguments
ReversalOf(t, o, a) ==
  /\ t.type = "REVERSAL"
  /\ t.status = "COMPLETED"
  /\ Len(t.entries) = Len(o.entries)
  /\ \A i \in 1..Len(o.entries) :
       /\ t.entries[i].acct = o.entries[i].acct
       /\ t.entries[i].amt = o.entries[i].amt
       /\ t.entries[i].side = Flip(o.entries[i].side)
  /\ t.from = o.to /\ t.to = o.from
  /\ t.ref = o.id
  /\ t.orig = o.id
  /\ t.reversalReason = a.why /\ a.why # ""
  /\ t.id # o.id

WithStatus(j, ids, status) ==
  {id \in ids : \E k \in 1..Len(j) : j[k].id = id /\ j[k].status = status}

\* the elements of a list
Elements(list) == {list[i] : i \in 1..Len(list)}

\* C31: in the pending sweep a DEBIT that would take a balance below zero
\* marks that one transaction FAILED and the sweep goes on with the next
\* selected transaction; the result it returns counts every selected
\* transaction once, as processed or as failed, and failedIds are exactly
\* the ids of the selected transactions stored FAILED.
SweepPerTransaction ==
  [][\A p \in Procs :
       /\ pc[p] = "swp_entry" /\ loc'[p] # loc[p]
          /\ EntryError(p, SweepDoc(p).entries[loc[p].j]) = "InsufficientFunds"
          => /\ pc'[p] = IF loc[p].i = Len(loc[p].list) THEN "swp_commit" ELSE "swp_mark"
             /\ loc'[p].i = loc[p].i + 1
             /\ loc'[p].failed = Append(loc[p].failed, SweepDoc(p).id)
             /\ Len(wtx'[p]) = Len(wtx[p])
             /\ \A k \in 1..Len(wtx[p]) :
                  IF wtx[p][k].id = SweepDoc(p).id
                  THEN wtx'[p][k].status = "FAILED"
                  ELSE wtx'[p][k] = wtx[p][k]
       /\ op[p] = "sweep" /\ ret'.task = p /\ ret'.res = "ok"
          => /\ Len(ret'.processed) + Len(ret'.failed) = Len(loc[p].list)
             /\ Elements(ret'.failed)
                  = WithStatus(journal', Elements(loc[p].list), "FAILED")
             /\ Elements(ret'.processed)
                  = WithStatus(journal', Elements(loc[p].list), "COMPLETED")]_vars

\* a sweep has returned with the first selected transaction failed and the
\* second processed
SweepPerTransactionWitness ==
  /\ ret.op = "sweep"
  /\ ret.res = "ok"
  /\ Len(ret.failed) = 1
  /\ Len(ret.processed) = 1
  /\ ret.failed[1] < ret.processed[1]

\* the accounts named in the entries of the transactions of j with these ids
Named(j, ids) ==
  UNION {{j[k].entries[i].acct : i \in 1..Len(j[k].entries)} :
           k \in {n \in 1..Len(j) : j[n].id \in ids}}

\* C32: the pending sweep changes only transactions that are PENDING and
\* older than 60 s, and only balances of accounts named in their entries;
\* it stores no new transaction, and everything else is left as it was.
SweepSelection ==
  [][\A p \in Procs :
       op[p] = "sweep" /\ (pc'[p] # pc[p] \/ loc'[p] # loc[p])
         => /\ accounts' = accounts /\ sysCache' = sysCache /\ aged' = aged
            /\ Len(journal') = Len(journal)
            /\ \A k \in 1..Len(journal) :
                 journal'[k] # journal[k]
                   => /\ journal[k].status = "PENDING"
                      /\ journal[k].id \in aged
                      /\ journal[k].id \in Elements(loc[p].list)
                      /\ journal'[k].id = journal[k].id
                      /\ journal'[k].entries = journal[k].entries
            /\ DOMAIN balances' = DOMAIN balances
            /\ \A a \in DOMAIN balances :
                 balances'[a] # balances[a]
                   => a \in Named(journal, Elements(loc[p].list) \cap aged)]_vars

\* a sweep has processed an old transaction while a PENDING one younger
\* than 60 s is stored, untouched
SweepSelectionWitness ==
  /\ ret.op = "sweep"
  /\ ret.res = "ok"
  /\ ret.processed # <<>>
  /\ \E k \in 1..Len(journal) : journal[k].status = "PENDING" /\ journal[k].id \notin aged

BalanceCurrency ==
  /\ [](\A a \in 1..Len(accounts) :
          a \in DOMAIN balances /\ balanceCurrency[a] = accounts[a].cur)
  /\ [][\A a \in 1..Len(accounts) :
          /\ accounts'[a].cur = accounts[a].cur
          /\ a \in DOMAIN balanceCurrency => balanceCurrency'[a] = balanceCurrency[a]]_vars

\* C35: once a deposit or a withdrawal on an account has completed, the
\* account endpoint, asked by the account's owner or an admin for that
\* account's id, returns the transactions whose fromAccount or toAccount is
\* the account, and so at least one.
AccountListing ==
  LET a == ret.acct
      done == {k \in 1..Len(journal) :
                 /\ journal[k].type \in {"DEPOSIT", "WITHDRAWAL"}
                 /\ journal[k].status = "COMPLETED"
                 /\ accounts[a].num \in {journal[k].from, journal[k].to}}
  IN  /\ ret.op = "getAccountTransactions"
      /\ a \in 1..Len(accounts)
      /\ ret.role = "admin" \/ ret.user = accounts[a].owner
      /\ done # {}
      => /\ ret.res = "ok"
         /\ ret.data # <<>>
         /\ Elements(ret.data)
              = {journal[k].id : k \in {n \in 1..Len(journal) :
                                          accounts[a].num \in {journal[n].from, journal[n].to}}}

\* C36: in every committed state the balance of each non-SYSTEM account is
\* its opening balance plus the CREDIT entries minus the DEBIT entries posted
\* to it by COMPLETED transactions; the entries of a FAILED, PENDING,
\* PROCESSING or CANCELLED transaction add nothing.
JournalAgrees ==
  \A a \in CustomerIds :
    balances[a] - Opening(a)
      = Deltas(journal, a)

\* what a sweep adds to account a by the transactions it completed and by
\* the first upto[id] entries of each transaction it failed
SweepDeltas(j, done, bad, upto, a) ==
  LET hits == SelectSeq(j, LAMBDA t : t.id \in bad)
  IN  Deltas(SelectSeq(j, LAMBDA t : t.id \in done), a)
        + Deltas([k \in 1..Len(hits) |->
                    [status |-> "COMPLETED",
                     entries |-> SubSeq(hits[k].entries, 1, upto[hits[k].id])]], a)

\* C37: however sweeps run beside each other and beside direct operations,
\* a sweep that commits handles each of its transactions once: each was
\* still PENDING in the store, is COMPLETED or FAILED afterwards and never
\* both, the balances move by its entries exactly once (by the entries before
\* the failing one for a FAILED transaction), and a COMPLETED or FAILED
\* transaction keeps its status for good.
AppliedOnce ==
  [][(\A p \in Procs :
        op[p] = "sweep" /\ ret'.task = p /\ ret'.res = "ok"
          => LET done == Elements(ret'.processed)
                 bad == Elements(ret'.failed)
             IN  /\ done \cap bad = {}
                 /\ Len(ret'.processed) = Cardinality(done)
                 /\ Len(ret'.failed) = Cardinality(bad)
                 /\ \A id \in done \cup bad : journal[FindTx(journal, id)].status = "PENDING"
                 /\ \A id \in done : journal'[FindTx(journal', id)].status = "COMPLETED"
                 /\ \A id \in bad : journal'[FindTx(journal', id)].status = "FAILED"
                 /\ \E upto \in [bad -> 0..1] :
                      \A a \in DOMAIN balances :
                        balances'[a] - balances[a] = SweepDeltas(journal', done, bad, upto, a))
     /\ (\A k \in 1..Len(journal) :
           journal[k].status \in {"COMPLETED", "FAILED"}
             => journal'[k].status = journal[k].status)]_vars

\* two sweeps selected the same transaction: one has completed it, and the
\* other has been stopped with nothing applied
AppliedOnceWitness ==
  /\ ret.op = "sweep"
  /\ ret.res = "TransactionError"
  /\ Len(journal) = 1
  /\ journal[1].status = "COMPLETED"
  /\ \A a \in DOMAIN balances : balances[a] = Opening(a) + Signed(journal[1].entries, a)

\* C38: the fifth wrong password in a row locks the account for 30 minutes;
\* a login that arrives while the account is locked is refused, whatever the
\* password; a successful login leaves the counter at 0 and the lock
\* cleared; and an account is locked only after at least five wrong
\* passwords since the last successful login.
LoginLockout ==
  [][/\ ret'.op = "login" /\ ret'.res = "Unauthorized:password" /\ failures' >= MaxFailedAttempts
          => users'.lockedUntil > clock /\ users'.lockedUntil <= clock + LockMinutes
     /\ ops' = ops + 1 /\ Locked(users)
          => ret'.op = "login" /\ ret'.res = "Unauthorized:locked"
     /\ ret'.op = "login" /\ ret'.res = "ok"
          => users'.failedLoginAttempts = 0 /\ users'.lockedUntil = 0
     /\ users'.lockedUntil > clock' => failures' >= MaxFailedAttempts]_vars

\* C39: for every request to getUserTransactions, getUserTransactionStats
\* or verifyTransaction, a cache hit and a transaction not found included,
\* exactly one response is sent, and on a cache hit the transaction store is
\* not queried.
OneResponse ==
  ret.op \in {"transactions", "stats", "verify"}
    => /\ ret.sent = 1
       /\ ret.hit => ret.queries = 0

====
